---- MODULE Spec2Model ----
(***************************************************************************)
(* serverless-resources-env: the after-deploy cycle of the plug-in         *)
(* (src/index.js, class ServerlessResourcesEnv, second definition, lines   *)
(* 160-407).  A cycle fetches the paginated list of CloudFormation         *)
(* resources of the stack, folds it into a CF_-prefixed map, and for each  *)
(* declared function publishes an environment to Lambda and writes a       *)
(* property file.                                                          *)
(*                                                                         *)
(* Conventions.                                                            *)
(*  - A JavaScript string is a TLA+ string; "" stands for every falsy      *)
(*    value of a string-valued setting (undefined, null, "").              *)
(*  - An optional object is None (undefined) or Some(v).                   *)
(*  - A JavaScript object used as a mapping is a sequence of [k, v]        *)
(*    records with distinct keys, in insertion order (the iteration order  *)
(*    of lodash and of for-in for non-integer keys).                       *)
(*  - File content is a sequence of tokens: keys, values, "=" and "\n".    *)
(***************************************************************************)
EXTENDS Naturals, Sequences, FiniteSets, TLC

VARIABLES
    cfg,               \* this.serverless / this.options: the configuration
    cfPages,           \* pages listStackResources may answer with
    phase,             \* position of the cycle's own code
    promise,           \* state of the promise afterDeploy returned
    reason,            \* rejection reason of that promise
    stackName,         \* const stackName of afterDeploy
    requests,          \* listStackResources requests issued, in order
    responses,         \* listStackResources callbacks received, in order
    resourceSummaries, \* accumulator argument of fetchCFResourcesPages
    resourceResult,    \* value fetchCFResources resolved with
    resources,         \* const resources of the then-handler
    nextFn,            \* index of the function the _.map loop handles next
    locals,            \* constants of each iteration of the _.map loop so far
    updates,           \* updateFunctionConfiguration requests issued
    writes,            \* fs.writeFile requests issued
    mkdirs,            \* fs.mkdirSync calls made
    dirState,          \* what the output directory path is on disk
    fsBudget,          \* remaining changes by other processes to that path
    files,             \* content of the files written, by path
    lambdaEnv,         \* Environment.Variables stored by Lambda, by name
    log,               \* this.serverless.cli.log calls, in order
    processEnv,        \* process.env of the process of a local invocation
    invoked            \* options.function of the local invocation, once made

vars == <<cfg, cfPages, phase, promise, reason, stackName, requests,
          responses, resourceSummaries, resourceResult, resources, nextFn, locals,
          updates, writes, mkdirs, dirState, fsBudget, files, lambdaEnv, log,
          processEnv, invoked>>

-----------------------------------------------------------------------------
(* Bounds of the model *)

MaxPages == 2
MaxPageLen == 1
MaxFsChanges == 1

-----------------------------------------------------------------------------
(* Optional values and insertion-ordered mappings *)

None == <<>>
Some(v) == <<v>>
IsSome(o) == Len(o) > 0
Val(o) == o[1]

KV(k, v) == [k |-> k, v |-> v]
EmptyMap == <<>>
Keys(m) == [i \in 1..Len(m) |-> m[i].k]
Values(m) == [i \in 1..Len(m) |-> m[i].v]
KeySet(m) == {m[i].k : i \in 1..Len(m)}
Has(m, k) == \E i \in 1..Len(m) : m[i].k = k
Get(m, k) == m[CHOOSE i \in 1..Len(m) : m[i].k = k].v
\* obj[k] = v : an existing key keeps its position, a new key is appended
Put(m, k, v) ==
    IF Has(m, k)
    THEN [i \in 1..Len(m) |-> IF m[i].k = k THEN KV(k, v) ELSE m[i]]
    ELSE Append(m, KV(k, v))
Range(s) == {s[i] : i \in 1..Len(s)}

RECURSIVE AssignAll(_, _)
\* Object.assign-style copy of every entry of src onto dst, in src's order
AssignAll(dst, src) ==
    IF src = <<>> THEN dst
    ELSE AssignAll(Put(dst, Head(src).k, Head(src).v), Tail(src))

-----------------------------------------------------------------------------
(* Stage, region and stack name *)

getStageSwapped(c) ==
    IF IsSome(c.options) /\ Val(c.options).stage # "" THEN Val(c.options).stage
    ELSE IF c.providerStage # "" THEN c.providerStage
    ELSE IF c.configStage # "" THEN c.configStage
    ELSE "dev"

getStage(c) ==
    IF IsSome(c.options) /\ Val(c.options).stage # "" THEN Val(c.options).stage
    ELSE IF c.configStage # "" THEN c.configStage
    ELSE IF c.providerStage # "" THEN c.providerStage
    ELSE "dev"

getRegion(c) ==
    IF IsSome(c.options) /\ Val(c.options).region # "" THEN Val(c.options).region
    ELSE IF c.configRegion # "" THEN c.configRegion
    ELSE IF c.providerRegion # "" THEN c.providerRegion
    ELSE "us-east-1"

getStackNameOfRegion(c) == c.service \o "-" \o getRegion(c)

getStackName(c) == c.service \o "-" \o getStage(c)

-----------------------------------------------------------------------------
(* Resource map and per-function selection (then-handler of afterDeploy) *)

CF(name) == "CF_" \o name

RECURSIVE reduceResources(_, _)
reduceResources(all, list) ==
    IF list = <<>> THEN all
    ELSE reduceResources(
             Put(all, CF(Head(list).LogicalResourceId),
                 Head(list).PhysicalResourceId),
             Tail(list))

RECURSIVE reduceResourcesKeepFirst(_, _)
reduceResourcesKeepFirst(all, list) ==
    IF list = <<>> THEN all
    ELSE reduceResourcesKeepFirst(
             IF Has(all, CF(Head(list).LogicalResourceId)) THEN all
             ELSE Put(all, CF(Head(list).LogicalResourceId),
                      Head(list).PhysicalResourceId),
             Tail(list))

resourcesOfKeepFirst(StackResources) ==
    reduceResourcesKeepFirst(EmptyMap, StackResources)

\* const resources = _.reduce(resourceResult.StackResources, ..., {})
resourcesOf(StackResources) == reduceResources(EmptyMap, StackResources)

\* functions[functionName].custom && functions[functionName].custom['env-resources']
\* a function without a list asking for resource "a" by default
envResourcesDefaulted(f) ==
    IF IsSome(f.custom) /\ IsSome(Val(f.custom).envResources)
    THEN Val(Val(f.custom).envResources)
    ELSE <<"a">>

envResources(f) ==
    IF IsSome(f.custom) /\ IsSome(Val(f.custom).envResources)
    THEN Val(Val(f.custom).envResources)
    ELSE <<>>

resourceList(f) ==
    [i \in 1..Len(envResources(f)) |-> CF(envResources(f)[i])]

RECURSIVE pickInto(_, _, _)
pickInto(result, object, paths) ==
    IF paths = <<>> THEN result
    ELSE pickInto(
             IF Has(object, Head(paths))
             THEN Put(result, Head(paths), Get(object, Head(paths)))
             ELSE result,
             object, Tail(paths))

pickEverything(object, paths) == object

\* _.pick(object, paths)
pick(object, paths) == pickInto(EmptyMap, object, paths)

\* _.difference(array, values)
difference(array, values) ==
    SelectSeq(array, LAMBDA x : x \notin Range(values))

thisFunctionsResources(res, f) == pick(res, resourceList(f))

notFoundList(res, f) ==
    difference(resourceList(f), Keys(thisFunctionsResources(res, f)))

\* the same three layers with the provider level applied last
thisFunctionEnvProviderLast(c, res, f) ==
    AssignAll(
        AssignAll(
            AssignAll(EmptyMap, thisFunctionsResources(res, f)),
            IF IsSome(f.environment) THEN Val(f.environment) ELSE EmptyMap),
        IF IsSome(c.providerEnvironment)
        THEN Val(c.providerEnvironment) ELSE EmptyMap)

\* _.extend({}, thisFunctionsResources, provider.environment || {}, f.environment)
thisFunctionEnv(c, res, f) ==
    AssignAll(
        AssignAll(
            AssignAll(EmptyMap, thisFunctionsResources(res, f)),
            IF IsSome(c.providerEnvironment)
            THEN Val(c.providerEnvironment) ELSE EmptyMap),
        IF IsSome(f.environment) THEN Val(f.environment) ELSE EmptyMap)

-----------------------------------------------------------------------------
(* File naming and serialization *)

getEnvDirectory(c) ==
    c.servicePath \o "/" \o
        (IF c.outputDir # "" THEN c.outputDir ELSE ".serverless-resources-env")

\* the default name of the older versions: one file per stage and region
getEnvFileNamePerStage(c, f) ==
    IF IsSome(f.custom) /\ Val(f.custom).outputFile # ""
    THEN Val(f.custom).outputFile
    ELSE "." \o getRegion(c) \o "_" \o getStage(c)

\* the default name with stage and region exchanged
getEnvFileNameStageFirst(c, f) ==
    IF IsSome(f.custom) /\ Val(f.custom).outputFile # ""
    THEN Val(f.custom).outputFile
    ELSE "." \o getStage(c) \o "_" \o getRegion(c) \o "_" \o f.name

getEnvFileName(c, f) ==
    IF IsSome(f.custom) /\ Val(f.custom).outputFile # ""
    THEN Val(f.custom).outputFile
    ELSE "." \o getRegion(c) \o "_" \o getStage(c) \o "_" \o f.name

fullFileName(c, f) == getEnvDirectory(c) \o "/" \o getEnvFileName(c, f)

RECURSIVE reduceData(_, _)
reduceData(properties, res) ==
    IF res = <<>> THEN properties
    ELSE reduceData(
             properties \o <<Head(res).k, "=", Head(res).v, "\n">>,
             Tail(res))

\* the lines joined by "\n" instead of each ended by it
dataJoined(res) ==
    IF res = <<>> THEN <<>>
    ELSE SubSeq(reduceData(<<>>, res), 1, Len(reduceData(<<>>, res)) - 1)

\* const data = _.reduce(resources, (properties, item, key) => ..., '')
data(res) == reduceData(<<>>, res)

-----------------------------------------------------------------------------
(* Configurations and the initial state *)

DirMode == 448   \* 0o700

Tokens == {"t1", "t2"}

Res(l, p) == [LogicalResourceId |-> l, PhysicalResourceId |-> p]
AllResources == {Res("a", "1"), Res("a", "2"), Res("b", "1")}

SeqsUpTo(S, n) == UNION {[1..k -> S] : k \in 0..n}

Fn(name, custom, environment) ==
    [name |-> name, custom |-> custom, environment |-> environment]
Custom(er, out) == [envResources |-> er, outputFile |-> out]
Options(stage, region) == [stage |-> stage, region |-> region]

BaseCfg ==
    [options |-> None,
     configStage |-> "", configRegion |-> "",
     providerStage |-> "", providerRegion |-> "",
     providerEnvironment |-> None,
     service |-> "unit-test-service",
     servicePath |-> ".",
     outputDir |-> "",
     functions |-> <<Fn("function1", Some(Custom(Some(<<"a", "x">>), "")), None)>>]

\* every combination of the three sources of stage and of region
ResolverCfgs ==
    {[BaseCfg EXCEPT !.service = svc, !.options = o,
                     !.configStage = cs, !.configRegion = cr,
                     !.providerStage = ps, !.providerRegion = pr] :
        svc \in {"unit-test-service", "a_service"},
        o \in {None} \cup {Some(Options(s, r)) :
                              s \in {"", "from_option"}, r \in {"", "eu-west-1"}},
        cs \in {"", "from_config"}, cr \in {"", "eu-west-2"},
        ps \in {"", "from_provider"}, pr \in {"", "eu-west-3"}}

InitFull(C, P, D, F, E) ==
    /\ cfg \in C
    /\ cfPages \in P
    /\ dirState \in D
    /\ phase = "idle"
    /\ promise = "none"
    /\ reason = ""
    /\ stackName = ""
    /\ requests = <<>>
    /\ responses = <<>>
    /\ resourceSummaries = <<>>
    /\ resourceResult = None
    /\ resources = EmptyMap
    /\ nextFn = 0
    /\ locals = <<>>
    /\ updates = <<>>
    /\ writes = <<>>
    /\ mkdirs = <<>>
    /\ fsBudget = MaxFsChanges
    /\ files \in F
    /\ lambdaEnv = EmptyMap
    /\ log = <<>>
    /\ processEnv \in E
    /\ invoked = None

\* no file on disk yet and an empty process environment
InitWith(C, P, D) == InitFull(C, P, D, {EmptyMap}, {EmptyMap})

InitResolver == InitWith(ResolverCfgs, {{<<Res("a", "1")>>}}, {"absent"})

\* every page of at most MaxPageLen resources
InitFetch ==
    InitWith({BaseCfg}, {SeqsUpTo(AllResources, MaxPageLen)}, {"absent"})

\* one function; every shape of its resource request and of the two
\* static environment layers
SelectCfgs ==
    {[BaseCfg EXCEPT !.providerEnvironment = pe,
                     !.functions = <<Fn("function1", cu, fe)>>] :
        cu \in {None, Some(Custom(None, ""))} \cup
               {Some(Custom(Some(er), "")) :
                   er \in {<<>>, <<"x">>, <<"b", "a">>, <<"a", "x", "a">>}},
        pe \in {None, Some(<<KV("CF_a", "default"), KV("CF_b", "2")>>)},
        fe \in {None, Some(<<KV("CF_b", "override")>>),
                Some(<<KV("CF_x", "static"), KV("OTHER", "o")>>)}}

InitSelect ==
    InitWith(SelectCfgs, {{<<>>, <<Res("a", "1")>>, <<Res("b", "2")>>}},
             {"absent"})

\* two functions (or none) whose publishes and writes run concurrently
CycleCfgs ==
    {[BaseCfg EXCEPT !.functions = <<>>]} \cup
    {[BaseCfg EXCEPT !.functions =
          <<Fn("function1", Some(Custom(Some(<<"a">>), o1)), None),
            Fn("function2", c2, e2)>>] :
        o1 \in {"", "customName"},
        c2 \in {None, Some(Custom(Some(<<"unknown">>), "customName"))},
        e2 \in {None, Some(<<KV("STATIC", "s")>>)}}

Init == InitWith(CycleCfgs, {{<<>>, <<Res("a", "1")>>}}, {"absent"})

\* two functions writing to one overridden file name, with the same request
\* or with different ones
WriteCfgs ==
    {[BaseCfg EXCEPT
        !.functions =
            <<Fn("function1", Some(Custom(Some(<<"a">>), "shared")), None),
              Fn("function2", Some(Custom(Some(r2), "shared")), None)>>] :
        r2 \in {<<"a">>, <<"b">>}}

\* what an earlier cycle left in the output directory
EarlierFiles ==
    {EmptyMap,
     <<KV("./.serverless-resources-env/shared", <<"CF_old", "=", "0", "\n">>)>>,
     <<KV("./.serverless-resources-env/shared", <<"CF_a", "=", "1", "\n">>),
       KV("./.serverless-resources-env/other", <<"CF_b", "=", "1", "\n">>)>>}

InitWrite ==
    InitFull(WriteCfgs, {{<<Res("a", "1")>>, <<Res("b", "1")>>}}, {"dir"},
             EarlierFiles, {EmptyMap})

\* one function "hello": run-time options, directory and file overrides
LocalCfgs ==
    {[BaseCfg EXCEPT
        !.options = o,
        !.outputDir = d,
        !.functions =
            <<Fn("hello", Some(Custom(Some(<<"a", "b">>), o1)), None)>>] :
        o \in {None, Some(Options("prod", "eu-west-1"))},
        d \in {"", "custom-dir"},
        o1 \in {"", "customName"}}

\* process.env before the local invocation
LocalEnvs == {EmptyMap, <<KV(CF("a"), "preset")>>, <<KV("HOME", "h")>>}

InitLocal ==
    InitFull(LocalCfgs, {{<<Res("a", "1")>>, <<Res("b", "1")>>}}, {"absent"},
             {EmptyMap}, LocalEnvs)

-----------------------------------------------------------------------------
(* The cycle *)

L(kind, name, keys, n) == [kind |-> kind, name |-> name, keys |-> keys, n |-> n]

\* afterDeploy up to the first listStackResources call
AfterDeploy ==
    /\ phase = "idle"
    /\ stackName' = getStackName(cfg)
    /\ log' = Append(log, L("lookup", getStackName(cfg), <<>>, 0))
    /\ requests' = <<[StackName |-> getStackName(cfg), NextToken |-> None]>>
    /\ resourceSummaries' = <<>>
    /\ phase' = "fetching"
    /\ promise' = "pending"
    /\ UNCHANGED <<cfg, cfPages, processEnv, invoked, locals, reason, responses, resourceResult, resources,
                   nextFn, updates, writes, mkdirs, dirState, fsBudget, files,
                   lambdaEnv>>

concatKeepingPageOnly(summaries, page) == page

\* resourceSummaries.concat(resourceResultPage.StackResourceSummaries)
concat(summaries, page) == summaries \o page

\* a callback that resolves with what was accumulated instead of rejecting
ListErrorResolvesPartial ==
    /\ phase = "fetching"
    /\ responses' = Append(responses,
                           [err |-> Some("ListError"), page |-> <<>>, token |-> None])
    /\ resourceResult' = Some(resourceSummaries)
    /\ phase' = "fetched"
    /\ UNCHANGED <<cfg, cfPages, processEnv, invoked, locals, promise, reason, stackName, requests,
                   resourceSummaries, resources, nextFn, updates, writes,
                   mkdirs, dirState, fsBudget, files, lambdaEnv, log>>

\* the callback asking for the failed page once more
ListErrorRetrying ==
    /\ phase = "fetching"
    /\ responses' = Append(responses,
                           [err |-> Some("ListError"), page |-> <<>>, token |-> None])
    /\ IF Len(requests) < MaxPages
       THEN /\ requests' = Append(requests, requests[Len(requests)])
            /\ UNCHANGED <<phase, promise, reason>>
       ELSE /\ phase' = "done"
            /\ promise' = "rejected"
            /\ reason' = "ListError"
            /\ UNCHANGED requests
    /\ UNCHANGED <<cfg, cfPages, processEnv, invoked, locals, stackName,
                   resourceSummaries, resourceResult, resources, nextFn,
                   updates, writes, mkdirs, dirState, fsBudget, files,
                   lambdaEnv, log>>

\* listStackResources callback with err != null
ListError ==
    /\ phase = "fetching"
    /\ responses' = Append(responses,
                           [err |-> Some("ListError"), page |-> <<>>, token |-> None])
    /\ phase' = "done"
    /\ promise' = "rejected"
    /\ reason' = "ListError"
    /\ UNCHANGED <<cfg, cfPages, processEnv, invoked, locals, stackName, requests, resourceSummaries,
                   resourceResult, resources, nextFn, updates, writes, mkdirs,
                   dirState, fsBudget, files, lambdaEnv, log>>

\* the callback of the last page asking for one more page before resolving
ListLastPageRequestingOn ==
    /\ phase = "fetching"
    /\ \E page \in cfPages :
         LET results == concat(resourceSummaries, page) IN
         /\ responses' = Append(responses,
                                [err |-> None, page |-> page, token |-> None])
         /\ log' = Append(log, L("returned", "", <<>>, Len(results)))
         /\ resourceResult' = Some(results)
    /\ requests' = Append(requests, requests[Len(requests)])
    /\ phase' = "fetched"
    /\ UNCHANGED <<cfg, cfPages, processEnv, invoked, locals, promise, reason,
                   stackName, resourceSummaries, resources, nextFn, updates,
                   writes, mkdirs, dirState, fsBudget, files, lambdaEnv>>

\* listStackResources callback with a page whose NextToken is null
ListLastPage ==
    /\ phase = "fetching"
    /\ \E page \in cfPages :
         LET results == concat(resourceSummaries, page) IN
         /\ responses' = Append(responses,
                                [err |-> None, page |-> page, token |-> None])
         /\ log' = Append(log, L("returned", "", <<>>, Len(results)))
         /\ resourceResult' = Some(results)
    /\ phase' = "fetched"
    /\ UNCHANGED <<cfg, cfPages, processEnv, invoked, locals, promise, reason, stackName, requests,
                   resourceSummaries, resources, nextFn, updates, writes,
                   mkdirs, dirState, fsBudget, files, lambdaEnv>>

\* the callback asking for the next page without the token it was given
ListNextPageWithoutToken ==
    /\ phase = "fetching"
    /\ Len(requests) < MaxPages
    /\ \E page \in cfPages, tok \in Tokens :
         LET allSummaries == concat(resourceSummaries, page) IN
         /\ responses' = Append(responses,
                                [err |-> None, page |-> page, token |-> Some(tok)])
         /\ log' = Append(log, L("nextpage", "", <<>>, 0))
         /\ resourceSummaries' = allSummaries
         /\ requests' = Append(requests,
                               [StackName |-> requests[Len(requests)].StackName,
                                NextToken |-> None])
    /\ UNCHANGED <<cfg, cfPages, processEnv, invoked, locals, phase, promise,
                   reason, stackName, resourceResult, resources, nextFn,
                   updates, writes, mkdirs, dirState, fsBudget, files,
                   lambdaEnv>>

\* listStackResources callback with a page that carries a NextToken
ListNextPage ==
    /\ phase = "fetching"
    /\ Len(requests) < MaxPages
    /\ \E page \in cfPages, tok \in Tokens :
         LET allSummaries == concat(resourceSummaries, page) IN
         /\ responses' = Append(responses,
                                [err |-> None, page |-> page, token |-> Some(tok)])
         /\ log' = Append(log, L("nextpage", "", <<>>, 0))
         /\ resourceSummaries' = allSummaries
         /\ requests' = Append(requests,
                               [StackName |-> requests[Len(requests)].StackName,
                                NextToken |-> Some(tok)])
    /\ UNCHANGED <<cfg, cfPages, processEnv, invoked, locals, phase, promise, reason, stackName,
                   resourceResult, resources, nextFn, updates, writes, mkdirs,
                   dirState, fsBudget, files, lambdaEnv>>

\* start of the then-handler: the resource map is built
MapResources ==
    /\ phase = "fetched"
    /\ resources' = resourcesOf(Val(resourceResult))
    /\ nextFn' = 1
    /\ IF Len(cfg.functions) = 0
       THEN phase' = "done" /\ promise' = "resolved"
       ELSE phase' = "processing" /\ UNCHANGED promise
    /\ UNCHANGED <<cfg, cfPages, processEnv, invoked, locals, reason, stackName, requests, responses,
                   resourceSummaries, resourceResult, updates, writes, mkdirs,
                   dirState, fsBudget, files, lambdaEnv, log>>

\* params of lambda.updateFunctionConfiguration
updateFunctionEnv(functionName, envVars) ==
    [FunctionName |-> functionName, Environment |-> [Variables |-> envVars]]

\* diagnostics of one iteration of the _.map loop, before the update is sent
\* the warning tied to an empty selection instead of to the unmet keys
selectionLogOfEmptySelection(res, f) ==
    (IF Len(Keys(thisFunctionsResources(res, f))) = 0
     THEN <<L("warning", f.name, notFoundList(res, f), 0)>> ELSE <<>>)
    \o
    (IF Len(Keys(thisFunctionsResources(res, f))) = 0
     THEN <<L("noenv", f.name, <<>>, 0)>>
     ELSE <<L("setting", f.name, Values(thisFunctionsResources(res, f)), 0)>>)

selectionLog(res, f) ==
    (IF Len(notFoundList(res, f)) > 0
     THEN <<L("warning", f.name, notFoundList(res, f), 0)>> ELSE <<>>)
    \o
    (IF Len(Keys(thisFunctionsResources(res, f))) = 0
     THEN <<L("noenv", f.name, <<>>, 0)>>
     ELSE <<L("setting", f.name, Values(thisFunctionsResources(res, f)), 0)>>)

\* the constants one iteration of the _.map loop computes
iteration(f) ==
    [functionName |-> f.name,
     awsFunctionName |-> stackName \o "-" \o f.name,
     resourceList |-> resourceList(f),
     thisFunctionsResources |-> thisFunctionsResources(resources, f),
     notFoundList |-> notFoundList(resources, f),
     thisFunctionEnv |-> thisFunctionEnv(cfg, resources, f)]

updateRequestOfResourcesOnly(f) ==
    [fn |-> f.name,
     params |-> updateFunctionEnv(iteration(f).awsFunctionName,
                                  iteration(f).thisFunctionsResources),
     status |-> "pending"]

\* the update request one iteration issues
updateRequest(f) ==
    [fn |-> f.name,
     params |-> updateFunctionEnv(iteration(f).awsFunctionName,
                                  iteration(f).thisFunctionEnv),
     status |-> "pending"]

writeRequestOfEnv(f) ==
    [fn |-> f.name,
     path |-> fullFileName(cfg, f),
     data |-> data(iteration(f).thisFunctionEnv),
     status |-> "pending"]

\* the write request createCFFile(functionName, thisFunctionsResources) issues
writeRequest(f) ==
    [fn |-> f.name,
     path |-> fullFileName(cfg, f),
     data |-> data(iteration(f).thisFunctionsResources),
     status |-> "pending"]

writingLog(f) ==
    L("writing", getEnvFileName(cfg, f), <<>>,
      Len(Keys(thisFunctionsResources(resources, f))))

\* the iteration calling mkdirSync without asking existsSync first
ProcessFunctionAlwaysCreating ==
    /\ phase = "processing"
    /\ nextFn <= Len(cfg.functions)
    /\ dirState \in {"absent", "dir"}
    /\ LET f == cfg.functions[nextFn] IN
         /\ locals' = Append(locals, iteration(f))
         /\ updates' = Append(updates, updateRequest(f))
         /\ mkdirs' = Append(mkdirs, [path |-> getEnvDirectory(cfg),
                                      mode |-> DirMode])
         /\ dirState' = "dir"
         /\ log' = log \o selectionLog(resources, f) \o <<writingLog(f)>>
         /\ writes' = Append(writes, writeRequest(f))
    /\ nextFn' = nextFn + 1
    /\ phase' = IF nextFn = Len(cfg.functions) THEN "done" ELSE "processing"
    /\ UNCHANGED <<cfg, cfPages, processEnv, invoked, promise, reason,
                   stackName, requests, responses, resourceSummaries,
                   resourceResult, resources, fsBudget, files, lambdaEnv>>

\* one iteration of the _.map loop whose createCFFile reaches fs.writeFile
ProcessFunction ==
    /\ phase = "processing"
    /\ nextFn <= Len(cfg.functions)
    /\ dirState \in {"absent", "dir"}
    /\ LET f == cfg.functions[nextFn] IN
         /\ locals' = Append(locals, iteration(f))
         /\ updates' = Append(updates, updateRequest(f))
         /\ mkdirs' = IF dirState = "absent"
                      THEN Append(mkdirs, [path |-> getEnvDirectory(cfg),
                                           mode |-> DirMode])
                      ELSE mkdirs
         /\ dirState' = "dir"
         /\ log' = log \o selectionLog(resources, f) \o <<writingLog(f)>>
         /\ writes' = Append(writes, writeRequest(f))
    /\ nextFn' = nextFn + 1
    /\ phase' = IF nextFn = Len(cfg.functions) THEN "done" ELSE "processing"
    /\ UNCHANGED <<cfg, cfPages, processEnv, invoked, promise, reason, stackName, requests,
                   responses, resourceSummaries, resourceResult, resources,
                   fsBudget, files, lambdaEnv>>

\* the throw of createCFFile caught per function, the loop going on
ProcessFunctionNotDirectoryContinuing ==
    /\ phase = "processing"
    /\ nextFn <= Len(cfg.functions)
    /\ dirState = "file"
    /\ LET f == cfg.functions[nextFn] IN
         /\ locals' = Append(locals, iteration(f))
         /\ updates' = Append(updates, updateRequest(f))
         /\ log' = log \o selectionLog(resources, f)
    /\ nextFn' = nextFn + 1
    /\ phase' = IF nextFn = Len(cfg.functions) THEN "done" ELSE "processing"
    /\ promise' = "rejected"
    /\ reason' = "NotADirectory"
    /\ UNCHANGED <<cfg, cfPages, processEnv, invoked, stackName, requests,
                   responses, resourceSummaries, resourceResult, resources,
                   writes, mkdirs, dirState, fsBudget, files, lambdaEnv>>

\* the iteration calling mkdirSync on the occupied path before it throws
ProcessFunctionNotDirectoryCreating ==
    /\ phase = "processing"
    /\ nextFn <= Len(cfg.functions)
    /\ dirState = "file"
    /\ LET f == cfg.functions[nextFn] IN
         /\ locals' = Append(locals, iteration(f))
         /\ updates' = Append(updates, updateRequest(f))
         /\ mkdirs' = Append(mkdirs, [path |-> getEnvDirectory(cfg),
                                      mode |-> DirMode])
         /\ log' = log \o selectionLog(resources, f)
    /\ nextFn' = nextFn + 1
    /\ phase' = "done"
    /\ promise' = "rejected"
    /\ reason' = "NotADirectory"
    /\ UNCHANGED <<cfg, cfPages, processEnv, invoked, stackName, requests,
                   responses, resourceSummaries, resourceResult, resources,
                   writes, dirState, fsBudget, files, lambdaEnv>>

\* one iteration whose createCFFile throws: the path is not a directory
ProcessFunctionNotDirectory ==
    /\ phase = "processing"
    /\ nextFn <= Len(cfg.functions)
    /\ dirState = "file"
    /\ LET f == cfg.functions[nextFn] IN
         /\ locals' = Append(locals, iteration(f))
         /\ updates' = Append(updates, updateRequest(f))
         /\ log' = log \o selectionLog(resources, f)
    /\ nextFn' = nextFn + 1
    /\ phase' = "done"
    /\ promise' = "rejected"
    /\ reason' = "NotADirectory"
    /\ UNCHANGED <<cfg, cfPages, processEnv, invoked, stackName, requests, responses,
                   resourceSummaries, resourceResult, resources, writes,
                   mkdirs, dirState, fsBudget, files, lambdaEnv>>

\* one iteration whose createCFFile throws out of fs.mkdirSync
ProcessFunctionMkdirFails ==
    /\ phase = "processing"
    /\ nextFn <= Len(cfg.functions)
    /\ dirState = "absent"
    /\ LET f == cfg.functions[nextFn] IN
         /\ locals' = Append(locals, iteration(f))
         /\ updates' = Append(updates, updateRequest(f))
         /\ mkdirs' = Append(mkdirs, [path |-> getEnvDirectory(cfg),
                                      mode |-> DirMode])
         /\ log' = log \o selectionLog(resources, f)
    /\ nextFn' = nextFn + 1
    /\ phase' = "done"
    /\ promise' = "rejected"
    /\ reason' = "MkdirError"
    /\ UNCHANGED <<cfg, cfPages, processEnv, invoked, stackName, requests, responses,
                   resourceSummaries, resourceResult, resources, writes,
                   dirState, fsBudget, files, lambdaEnv>>

\* another process replaces or removes the output directory path
ExternalFsChange ==
    /\ phase = "processing"
    /\ fsBudget > 0
    /\ dirState' \in {"absent", "dir", "file"} \ {dirState}
    /\ fsBudget' = fsBudget - 1
    /\ files' = EmptyMap   \* the directory's entries go with it
    /\ UNCHANGED <<cfg, cfPages, processEnv, invoked, locals, phase, promise, reason, stackName, requests,
                   responses, resourceSummaries, resourceResult, resources,
                   nextFn, updates, writes, mkdirs, lambdaEnv, log>>

\* a wait on the update requests alone
AllFulfilledUpdates(u, w) ==
    /\ Len(u) = Len(cfg.functions)
    /\ \A i \in 1..Len(u) : u[i].status = "ok"

\* Promise.all over every function's [awsUpdateResult, createFileResult]
AllFulfilled(u, w) ==
    /\ Len(u) = Len(cfg.functions)
    /\ Len(w) = Len(cfg.functions)
    /\ \A i \in 1..Len(u) : u[i].status = "ok"
    /\ \A i \in 1..Len(w) : w[i].status = "ok"

\* the success reported only while the aggregate wait is still pending
UpdateSucceedsUnreportedOnceSettled(i) ==
    /\ phase = "done"
    /\ i \in 1..Len(updates)
    /\ updates[i].status = "pending"
    /\ updates' = [updates EXCEPT ![i].status = "ok"]
    /\ lambdaEnv' = Put(lambdaEnv, updates[i].params.FunctionName,
                        updates[i].params.Environment.Variables)
    /\ log' = IF promise = "pending"
              THEN Append(log, L("success", updates[i].params.FunctionName,
                                 <<>>, 0))
              ELSE log
    /\ promise' = IF promise = "pending" /\ AllFulfilled(updates', writes)
                  THEN "resolved" ELSE promise
    /\ UNCHANGED <<cfg, cfPages, processEnv, invoked, locals, phase, reason,
                   stackName, requests, responses, resourceSummaries,
                   resourceResult, resources, nextFn, writes, mkdirs,
                   dirState, fsBudget, files>>

\* updateFunctionConfiguration callback without error
UpdateSucceeds(i) ==
    /\ phase = "done"
    /\ i \in 1..Len(updates)
    /\ updates[i].status = "pending"
    /\ updates' = [updates EXCEPT ![i].status = "ok"]
    /\ lambdaEnv' = Put(lambdaEnv, updates[i].params.FunctionName,
                        updates[i].params.Environment.Variables)
    /\ log' = Append(log, L("success", updates[i].params.FunctionName, <<>>, 0))
    /\ promise' = IF promise = "pending" /\ AllFulfilled(updates', writes)
                  THEN "resolved" ELSE promise
    /\ UNCHANGED <<cfg, cfPages, processEnv, invoked, locals, phase, reason, stackName, requests, responses,
                   resourceSummaries, resourceResult, resources, nextFn,
                   writes, mkdirs, dirState, fsBudget, files>>

\* the error of the callback caught and kept from the aggregate wait
UpdateFailsCaught(i) ==
    /\ phase = "done"
    /\ i \in 1..Len(updates)
    /\ updates[i].status = "pending"
    /\ updates' = [updates EXCEPT ![i].status = "failed"]
    /\ UNCHANGED <<cfg, cfPages, processEnv, invoked, locals, phase, promise,
                   reason, stackName, requests, responses, resourceSummaries,
                   resourceResult, resources, nextFn, writes, mkdirs,
                   dirState, fsBudget, files, lambdaEnv, log>>

\* updateFunctionConfiguration callback with an error
UpdateFails(i) ==
    /\ phase = "done"
    /\ i \in 1..Len(updates)
    /\ updates[i].status = "pending"
    /\ updates' = [updates EXCEPT ![i].status = "failed"]
    /\ promise' = IF promise = "pending" THEN "rejected" ELSE promise
    /\ reason' = IF promise = "pending" THEN "UpdateError" ELSE reason
    /\ UNCHANGED <<cfg, cfPages, processEnv, invoked, locals, phase, stackName, requests, responses,
                   resourceSummaries, resourceResult, resources, nextFn,
                   writes, mkdirs, dirState, fsBudget, files, lambdaEnv, log>>

\* the callback of an fs.appendFile in place of fs.writeFile
WriteSucceedsAppending(i) ==
    /\ phase = "done"
    /\ i \in 1..Len(writes)
    /\ writes[i].status = "pending"
    /\ dirState = "dir"
    /\ writes' = [writes EXCEPT ![i].status = "ok"]
    /\ files' = Put(files, writes[i].path,
                    (IF Has(files, writes[i].path)
                     THEN Get(files, writes[i].path) ELSE <<>>)
                        \o writes[i].data)
    /\ promise' = IF promise = "pending" /\ AllFulfilled(updates, writes')
                  THEN "resolved" ELSE promise
    /\ UNCHANGED <<cfg, cfPages, processEnv, invoked, locals, phase, reason,
                   stackName, requests, responses, resourceSummaries,
                   resourceResult, resources, nextFn, updates, mkdirs,
                   dirState, fsBudget, lambdaEnv, log>>

\* fs.writeFile callback without error
WriteSucceeds(i) ==
    /\ phase = "done"
    /\ i \in 1..Len(writes)
    /\ writes[i].status = "pending"
    /\ dirState = "dir"
    /\ writes' = [writes EXCEPT ![i].status = "ok"]
    /\ files' = Put(files, writes[i].path, writes[i].data)
    /\ promise' = IF promise = "pending" /\ AllFulfilled(updates, writes')
                  THEN "resolved" ELSE promise
    /\ UNCHANGED <<cfg, cfPages, processEnv, invoked, locals, phase, reason, stackName, requests, responses,
                   resourceSummaries, resourceResult, resources, nextFn,
                   updates, mkdirs, dirState, fsBudget, lambdaEnv, log>>

\* fs.writeFile callback with an error
WriteFails(i) ==
    /\ phase = "done"
    /\ i \in 1..Len(writes)
    /\ writes[i].status = "pending"
    /\ writes' = [writes EXCEPT ![i].status = "failed"]
    /\ promise' = IF promise = "pending" THEN "rejected" ELSE promise
    /\ reason' = IF promise = "pending" THEN "WriteError" ELSE reason
    /\ UNCHANGED <<cfg, cfPages, processEnv, invoked, locals, phase, stackName, requests, responses,
                   resourceSummaries, resourceResult, resources, nextFn,
                   updates, mkdirs, dirState, fsBudget, files, lambdaEnv, log>>

-----------------------------------------------------------------------------
(* The hook before:invoke:local:invoke *)

\* one KEY=VALUE line of the file, assigned into the parsed object
keyValue(obj, line) ==
    IF Len(line) = 3 /\ line[2] = "=" THEN Put(obj, line[1], line[3]) ELSE obj

\* dotenv.parse: the file's lines, split at "\n", as an object
RECURSIVE parseInto(_, _, _)
parseInto(obj, line, rest) ==
    IF rest = <<>> THEN keyValue(obj, line)
    ELSE IF Head(rest) = "\n"
         THEN parseInto(keyValue(obj, line), <<>>, Tail(rest))
         ELSE parseInto(obj, Append(line, Head(rest)), Tail(rest))

parse(content) == parseInto(EmptyMap, <<>>, content)

\* dotenv assigns a parsed key only when process.env does not own it
RECURSIVE populate(_, _)
populate(env, parsed) ==
    IF parsed = <<>> THEN env
    ELSE populate(IF Has(env, Head(parsed).k) THEN env
                  ELSE Put(env, Head(parsed).k, Head(parsed).v),
                  Tail(parsed))

\* dotenv.config({ path }): a file that cannot be read is not an error
dotenvConfig(env, fs, path) ==
    IF Has(fs, path) THEN populate(env, parse(Get(fs, path))) ELSE env

\* the file name alone handed to dotenv, without the output directory
localFullPathOfFileName(c, f) == getEnvFileName(c, f)

\* const fullPath = `${path}/${fileName}`
localFullPath(c, f) == getEnvDirectory(c) \o "/" \o getEnvFileName(c, f)

pullingLog(f) == L("pulling", localFullPath(cfg, f), <<>>, 0)

\* the hook reading the file itself: a missing file raises
BeforeLocalInvokeReading ==
    /\ invoked = None
    /\ \E n \in 1..Len(cfg.functions) :
         LET f == cfg.functions[n] IN
           /\ invoked' = Some([fn |-> f.name, path |-> localFullPath(cfg, f),
                               outcome |-> IF Has(files, localFullPath(cfg, f))
                                           THEN "returned" ELSE "raised"])
           /\ log' = Append(log, pullingLog(f))
           /\ processEnv' = dotenvConfig(processEnv, files,
                                         localFullPath(cfg, f))
    /\ UNCHANGED <<cfg, cfPages, phase, promise, reason, stackName, requests,
                   responses, resourceSummaries, resourceResult, resources,
                   nextFn, locals, updates, writes, mkdirs, dirState,
                   fsBudget, files, lambdaEnv>>

\* the hook assigning every key of the file over process.env
BeforeLocalInvokeOverriding ==
    /\ invoked = None
    /\ \E n \in 1..Len(cfg.functions) :
         LET f == cfg.functions[n] IN
           /\ invoked' = Some([fn |-> f.name, path |-> localFullPath(cfg, f),
                               outcome |-> "returned"])
           /\ log' = Append(log, pullingLog(f))
           /\ processEnv' =
                  IF Has(files, localFullPath(cfg, f))
                  THEN AssignAll(processEnv,
                                 parse(Get(files, localFullPath(cfg, f))))
                  ELSE processEnv
    /\ UNCHANGED <<cfg, cfPages, phase, promise, reason, stackName, requests,
                   responses, resourceSummaries, resourceResult, resources,
                   nextFn, locals, updates, writes, mkdirs, dirState,
                   fsBudget, files, lambdaEnv>>

\* beforeLocalInvoke() for options.function, any declared function
BeforeLocalInvoke ==
    /\ invoked = None
    /\ \E n \in 1..Len(cfg.functions) :
         LET f == cfg.functions[n] IN
           /\ invoked' = Some([fn |-> f.name, path |-> localFullPath(cfg, f),
                               outcome |-> "returned"])
           /\ log' = Append(log, pullingLog(f))
           /\ processEnv' = dotenvConfig(processEnv, files,
                                         localFullPath(cfg, f))
    /\ UNCHANGED <<cfg, cfPages, phase, promise, reason, stackName, requests,
                   responses, resourceSummaries, resourceResult, resources,
                   nextFn, locals, updates, writes, mkdirs, dirState,
                   fsBudget, files, lambdaEnv>>

Next ==
    \/ AfterDeploy
    \/ ListError
    \/ ListLastPage
    \/ ListNextPage
    \/ MapResources
    \/ ProcessFunction
    \/ ProcessFunctionNotDirectory
    \/ ProcessFunctionMkdirFails
    \/ ExternalFsChange
    \/ \E i \in 1..Len(updates) : UpdateSucceeds(i)
    \/ \E i \in 1..Len(updates) : UpdateFails(i)
    \/ \E i \in 1..Len(writes) : WriteSucceeds(i)
    \/ \E i \in 1..Len(writes) : WriteFails(i)

SpecResolver == InitResolver /\ [][Next]_vars

SpecFetch == InitFetch /\ [][Next]_vars

SpecSelect == InitSelect /\ [][Next]_vars

Spec == Init /\ [][Next]_vars

SpecWrite == InitWrite /\ [][Next]_vars

\* a provider with two possible pages that answers every page request
InitAnswered ==
    InitWith({BaseCfg}, {{<<>>, <<Res("a", "1")>>}}, {"absent"})

Answered == WF_vars(ListError \/ ListLastPage \/ ListNextPage)

SpecAnswered == InitAnswered /\ [][Next]_vars /\ Answered

\* the deploy hook and the local-invocation hook, in separate processes
NextLocal == Next \/ BeforeLocalInvoke

SpecLocal == InitLocal /\ [][NextLocal]_vars

-----------------------------------------------------------------------------
(* Stage/region resolver and stack name: properties *)

\* the run-time option, "" when there are no options or the option is unset
OptionOf(c, field) ==
    IF c.options = None THEN ""
    ELSE IF field = "stage" THEN c.options[1].stage ELSE c.options[1].region

\* first non-empty element of a sequence of candidates, else the fallback
FirstPresent(candidates, fallback) ==
    IF \A i \in 1..Len(candidates) : candidates[i] = "" THEN fallback
    ELSE candidates[CHOOSE i \in 1..Len(candidates) :
                        /\ candidates[i] # ""
                        /\ \A j \in 1..(i - 1) : candidates[j] = ""]

ExpectedStage(c) ==
    FirstPresent(<<OptionOf(c, "stage"), c.configStage, c.providerStage>>, "dev")

ExpectedRegion(c) ==
    FirstPresent(<<OptionOf(c, "region"), c.configRegion, c.providerRegion>>,
                 "us-east-1")

\* C1: for every combination of present and absent option, config and
\* provider values, getStage and getRegion return the first present value in
\* the order option, config, provider, and otherwise "dev" / "us-east-1";
\* the value returned is never empty.
C1_Precedence ==
    /\ getStage(cfg) = ExpectedStage(cfg)
    /\ getRegion(cfg) = ExpectedRegion(cfg)
    /\ getStage(cfg) # ""
    /\ getRegion(cfg) # ""

\* a cycle started with no option and no config value but a provider stage
C1_Witness ==
    /\ phase # "idle"
    /\ OptionOf(cfg, "stage") = ""
    /\ cfg.configStage = ""
    /\ cfg.providerStage = "from_provider"
    /\ cfg.configRegion = "eu-west-2"
    /\ cfg.providerRegion = "eu-west-3"
    /\ stackName = cfg.service \o "-from_provider"

\* C2: the stack name is serviceName-stage with the stage of the precedence
\* order; every list request of the cycle carries it and every remote
\* function name of the cycle is that stack name, "-" and the function name.
C2_StackName ==
    /\ getStackName(cfg) = cfg.service \o "-" \o ExpectedStage(cfg)
    /\ phase # "idle" => stackName = cfg.service \o "-" \o ExpectedStage(cfg)
    /\ \A i \in 1..Len(requests) :
         requests[i].StackName = cfg.service \o "-" \o ExpectedStage(cfg)
    /\ \A i \in 1..Len(updates) :
         updates[i].params.FunctionName =
             cfg.service \o "-" \o ExpectedStage(cfg) \o "-" \o updates[i].fn

\* two list requests and an update were sent under the config-level stage
C2_Witness ==
    /\ Len(requests) = 2
    /\ Len(updates) = 1
    /\ cfg.service = "a_service"
    /\ requests[2].StackName = "a_service-from_config"
    /\ updates[1].params.FunctionName = "a_service-from_config-function1"

-----------------------------------------------------------------------------
(* Resource fetcher and resource mapper: properties *)

RECURSIVE ConcatPages(_)
\* the resource lists of a sequence of responses, joined in arrival order
ConcatPages(rs) ==
    IF rs = <<>> THEN <<>> ELSE Head(rs).page \o ConcatPages(Tail(rs))

\* C3: when the fetch resolves, N pages have arrived of which exactly the
\* last carries no continuation token, the resolved list is the pages'
\* lists joined in arrival order, and exactly N list requests were issued.
C3_Pagination ==
    IsSome(resourceResult) =>
        /\ Len(responses) >= 1
        /\ \A i \in 1..Len(responses) :
             /\ responses[i].err = None
             /\ IsSome(responses[i].token) <=> i < Len(responses)
        /\ Val(resourceResult) = ConcatPages(responses)
        /\ Len(requests) = Len(responses)

\* a fetch of two non-empty pages has resolved
C3_Witness ==
    /\ IsSome(resourceResult)
    /\ Len(responses) = 2
    /\ responses[1].page = <<Res("b", "1")>>
    /\ responses[2].page = <<Res("a", "1")>>
    /\ Val(resourceResult) = <<Res("b", "1"), Res("a", "1")>>

\* C4: once a page request has errored, the cycle's promise is rejected with
\* that error, no resource list was delivered to the then-handler, and no
\* environment update, directory creation or file write was issued.
C4_FetchErrorAborts ==
    \A i \in 1..Len(responses) :
        IsSome(responses[i].err) =>
            /\ phase = "done"
            /\ promise = "rejected"
            /\ reason = Val(responses[i].err)
            /\ resourceResult = None
            /\ resources = EmptyMap
            /\ updates = <<>>
            /\ writes = <<>>
            /\ mkdirs = <<>>
            /\ files = EmptyMap
            /\ lambdaEnv = EmptyMap

\* the second page request errored after a non-empty first page
C4_Witness ==
    /\ Len(responses) = 2
    /\ responses[1].page # <<>>
    /\ IsSome(responses[2].err)
    /\ promise = "rejected"

\* the then-handler has built the resource map
Mapped == IsSome(resourceResult) /\ phase \in {"processing", "done"}

\* index of the last fetched resource with the logical id of the i-th
LastWith(list, i) ==
    CHOOSE j \in 1..Len(list) :
        /\ list[j].LogicalResourceId = list[i].LogicalResourceId
        /\ \A m \in (j + 1)..Len(list) :
             list[m].LogicalResourceId # list[i].LogicalResourceId

\* C5 as stated: every fetched resource's logical id L is mapped to key
\* CF_L with that resource's physical id as value.
C5_EveryResourceMapped ==
    Mapped =>
        \A i \in 1..Len(Val(resourceResult)) :
            /\ Has(resources, "CF_" \o Val(resourceResult)[i].LogicalResourceId)
            /\ Get(resources, "CF_" \o Val(resourceResult)[i].LogicalResourceId)
                   = Val(resourceResult)[i].PhysicalResourceId

\* C5, amended: every fetched logical id L is mapped to key CF_L, and the
\* value is the physical id of the last fetched resource with that logical
\* id; the map has one key per distinct logical id, no other key, and is
\* empty for an empty list.
C5_Mapping ==
    Mapped =>
        LET list == Val(resourceResult) IN
        /\ \A i \in 1..Len(list) :
             /\ Has(resources, "CF_" \o list[i].LogicalResourceId)
             /\ Get(resources, "CF_" \o list[i].LogicalResourceId)
                    = list[LastWith(list, i)].PhysicalResourceId
        /\ \A k \in KeySet(resources) :
             \E i \in 1..Len(list) : k = "CF_" \o list[i].LogicalResourceId
        /\ Cardinality(KeySet(resources)) = Len(resources)
        /\ Len(resources) =
               Cardinality({list[i].LogicalResourceId : i \in 1..Len(list)})
        /\ list = <<>> => resources = EmptyMap

\* a map built from two pages that repeat one logical id
C5_Witness ==
    /\ Mapped
    /\ Val(resourceResult) = <<Res("a", "1"), Res("a", "2")>>
    /\ resources = <<KV("CF_a", "2")>>

-----------------------------------------------------------------------------
(* Per-function selector, publisher and file writer: properties *)

\* the keys a declared function asks for, read off the configuration
Requested(f) ==
    IF f.custom = None THEN <<>>
    ELSE IF f.custom[1].envResources = None THEN <<>>
    ELSE [n \in 1..Len(f.custom[1].envResources[1]) |->
              "CF_" \o f.custom[1].envResources[1][n]]

ProviderLayer == IF cfg.providerEnvironment = None THEN EmptyMap
                 ELSE cfg.providerEnvironment[1]

FunctionLayer(f) == IF f.environment = None THEN EmptyMap ELSE f.environment[1]

\* C6: the matched set of a function is exactly the entries of the resource
\* map under its requested CF_ keys, unmetKeys is exactly the requested keys
\* the map lacks, and an unmet key reaches neither the file nor, unless a
\* static layer defines it, the published environment.
C6_Selection ==
    \A i \in 1..Len(locals) :
        LET f == cfg.functions[i]
            matched == locals[i].thisFunctionsResources
            unmet == locals[i].notFoundList
            published == updates[i].params.Environment.Variables
        IN
        /\ KeySet(matched) = Range(Requested(f)) \cap KeySet(resources)
        /\ Len(matched) = Cardinality(KeySet(matched))
        /\ \A k \in KeySet(matched) : Get(matched, k) = Get(resources, k)
        /\ unmet = SelectSeq(Requested(f), LAMBDA k : ~Has(resources, k))
        /\ \A k \in Range(unmet) :
             /\ ~Has(matched, k)
             /\ Has(published, k) =>
                    \/ Has(FunctionLayer(f), k)
                       /\ Get(published, k) = Get(FunctionLayer(f), k)
                    \/ ~Has(FunctionLayer(f), k) /\ Has(ProviderLayer, k)
                       /\ Get(published, k) = Get(ProviderLayer, k)
             /\ i <= Len(writes) => k \notin Range(writes[i].data)
        /\ (Requested(f) = <<"CF_x">> /\ ~Has(resources, "CF_x")) =>
               matched = EmptyMap /\ unmet = <<"CF_x">>

\* a function asking only for x was processed against a map without CF_x
C6_Witness ==
    /\ Len(locals) = 1
    /\ Len(writes) = 1
    /\ Requested(cfg.functions[1]) = <<"CF_x">>
    /\ resources = <<KV("CF_a", "1"), KV("CF_b", "2")>>
    /\ locals[1].thisFunctionsResources = EmptyMap
    /\ locals[1].notFoundList = <<"CF_x">>
    /\ writes[1].data = <<>>

\* env is lower overlaid by middle overlaid by upper
IsOverlay(env, lower, middle, upper) ==
    /\ KeySet(env) = KeySet(lower) \cup KeySet(middle) \cup KeySet(upper)
    /\ Len(env) = Cardinality(KeySet(env))
    /\ \A k \in KeySet(env) :
         Get(env, k) = IF Has(upper, k) THEN Get(upper, k)
                        ELSE IF Has(middle, k) THEN Get(middle, k)
                        ELSE Get(lower, k)

\* C7: the environment published for a function holds every key of the
\* matched resources, of the provider-level environment and of the
\* function-level environment; on a collision the provider value replaces
\* the matched one and the function-level value replaces both.
C7_Overlay ==
    \A i \in 1..Len(updates) :
        IsOverlay(updates[i].params.Environment.Variables,
                  locals[i].thisFunctionsResources,
                  ProviderLayer,
                  FunctionLayer(cfg.functions[i]))

\* matched {CF_a: 1}, provider {CF_a: default, CF_b: 2}, function
\* {CF_b: override} were published as {CF_a: default, CF_b: override}
C7_Witness ==
    /\ Len(updates) = 1
    /\ locals[1].thisFunctionsResources = <<KV("CF_a", "1")>>
    /\ ProviderLayer = <<KV("CF_a", "default"), KV("CF_b", "2")>>
    /\ FunctionLayer(cfg.functions[1]) = <<KV("CF_b", "override")>>
    /\ updates[1].params.Environment.Variables =
           <<KV("CF_a", "default"), KV("CF_b", "override")>>

\* the resource map restricted to the keys a function asks for
Restricted(f) ==
    SelectSeq(resources, LAMBDA e : e.k \in Range(Requested(f)))

\* the then-handler ran to its end: no createCFFile call threw
HandlerReturned ==
    /\ phase = "done"
    /\ IsSome(resourceResult)
    /\ Len(writes) = Len(cfg.functions)

\* C8: the update requests issued are for declared functions, in declaration
\* order and at most one each; once the then-handler has returned there is
\* exactly one per declared function, named stackName-functionName, whose
\* Environment.Variables is the function's whole resolved environment; what
\* Lambda stores after a successful update is that environment.
C8_PublishOncePerFunction ==
    /\ Len(updates) <= Len(cfg.functions)
    /\ \A i \in 1..Len(updates) :
         LET f == cfg.functions[i] IN
         /\ updates[i].fn = f.name
         /\ updates[i].params.FunctionName =
                getStackName(cfg) \o "-" \o f.name
         /\ IsOverlay(updates[i].params.Environment.Variables,
                      Restricted(f), ProviderLayer, FunctionLayer(f))
         /\ updates[i].status = "ok" =>
                /\ Has(lambdaEnv, updates[i].params.FunctionName)
                /\ Get(lambdaEnv, updates[i].params.FunctionName) =
                       updates[i].params.Environment.Variables
    /\ HandlerReturned => Len(updates) = Len(cfg.functions)

\* both functions of a cycle were published, the second with a static entry
C8_Witness ==
    /\ HandlerReturned
    /\ Len(updates) = 2
    /\ updates[1].status = "ok"
    /\ updates[2].status = "ok"
    /\ updates[1].params.FunctionName = "unit-test-service-dev-function1"
    /\ updates[1].params.Environment.Variables = <<KV("CF_a", "1")>>
    /\ updates[2].params.FunctionName = "unit-test-service-dev-function2"
    /\ updates[2].params.Environment.Variables = <<KV("STATIC", "s")>>

RECURSIVE SplitLines(_, _)
\* the lines of a file content: the runs of tokens between "\n" tokens
SplitLines(current, rest) ==
    IF rest = <<>> THEN (IF current = <<>> THEN <<>> ELSE <<current>>)
    ELSE IF Head(rest) = "\n"
         THEN <<current>> \o SplitLines(<<>>, Tail(rest))
         ELSE SplitLines(Append(current, Head(rest)), Tail(rest))

Lines(content) == SplitLines(<<>>, content)

\* the KEY=VALUE lines of the entries of a mapping, as a set
LineSet(m) == {<<m[n].k, "=", m[n].v>> : n \in 1..Len(m)}

\* C9 as stated: the file written for a function has exactly one KEY=VALUE
\* line per entry of the environment published for that function.
C9_FileIsPublishedEnvironment ==
    \A i \in 1..Len(writes) :
        /\ Range(Lines(writes[i].data)) =
               LineSet(updates[i].params.Environment.Variables)
        /\ Len(Lines(writes[i].data)) =
               Len(updates[i].params.Environment.Variables)

\* C9, amended: the file written for a function has exactly one KEY=VALUE
\* line per matched resource of that function (the requested CF_ keys found
\* in the resource map) and no other line; the static provider-level and
\* function-level entries are published but not written.
C9_FileIsMatchedResources ==
    \A i \in 1..Len(writes) :
        LET f == cfg.functions[i] IN
        /\ writes[i].fn = f.name
        /\ Range(Lines(writes[i].data)) = LineSet(Restricted(f))
        /\ Len(Lines(writes[i].data)) = Len(Restricted(f))
        /\ writes[i].status = "ok" =>
               /\ Has(files, writes[i].path)
               /\ \E j \in 1..Len(writes) :
                    /\ writes[j].path = writes[i].path
                    /\ writes[j].status = "ok"
                    /\ Get(files, writes[i].path) = writes[j].data

\* a file of one line was written while three entries were published
C9_Witness ==
    /\ Len(writes) = 1
    /\ writes[1].status = "ok"
    /\ Get(files, writes[1].path) = <<"CF_a", "=", "1", "\n">>
    /\ updates[1].params.Environment.Variables =
           <<KV("CF_a", "1"), KV("CF_x", "static"), KV("OTHER", "o")>>

\* C10: the content createCFFile writes is, entry by entry in the iteration
\* order of the mapping it is given, key "=" value "\n": as many lines and
\* as many newlines as entries, and nothing for an empty mapping.
C10_Serialization ==
    \A i \in 1..Len(writes) :
        LET m == locals[i].thisFunctionsResources
            content == writes[i].data
        IN
        /\ Lines(content) = [n \in 1..Len(m) |-> <<m[n].k, "=", m[n].v>>]
        /\ Len(SelectSeq(content, LAMBDA t : t = "\n")) = Len(m)
        /\ Len(content) = 4 * Len(m)
        /\ m = EmptyMap => content = <<>>

\* a file whose lines follow the order of the request, not of the map
C10_Witness ==
    /\ Len(writes) = 1
    /\ resources = <<KV("CF_a", "1"), KV("CF_b", "2")>>
    /\ locals[1].thisFunctionsResources = <<KV("CF_b", "2"), KV("CF_a", "1")>>
    /\ writes[1].data = <<"CF_b", "=", "2", "\n", "CF_a", "=", "1", "\n">>

-----------------------------------------------------------------------------
(* File naming and the output directory: properties *)

\* the declared function of a given name
FunctionNamed(c, name) ==
    c.functions[CHOOSE n \in 1..Len(c.functions) : c.functions[n].name = name]

ExpectedDirectory(c) ==
    c.servicePath \o "/" \o
        (IF c.outputDir = "" THEN ".serverless-resources-env" ELSE c.outputDir)

ExpectedFileName(c, f) ==
    IF f.custom # None /\ f.custom[1].outputFile # ""
    THEN f.custom[1].outputFile
    ELSE "." \o ExpectedRegion(c) \o "_" \o ExpectedStage(c) \o "_" \o f.name

C12_NotDirectoryFails ==
    [][(phase = "processing" /\ dirState = "file"
            /\ Len(locals') = Len(locals) + 1)
       => /\ mkdirs' = mkdirs
          /\ writes' = writes
          /\ \A n \in (Len(log) + 1)..Len(log') : log'[n].kind # "writing"
          /\ dirState' = "file"
          /\ files' = files
          /\ promise' = "rejected"
          /\ reason' = "NotADirectory"]_vars

\* the second function met a file where the first had made the directory
C12_Witness ==
    /\ reason = "NotADirectory"
    /\ dirState = "file"
    /\ Len(locals) = 2
    /\ Len(writes) = 1
    /\ Len(mkdirs) = 1

\* C13: when a write is issued for a function, the output directory was
\* created with mode 0o700 (448) in the same call, ahead of the write, if it
\* did not exist, and no creation was attempted if it already existed as a
\* directory; either way the directory exists when the write is issued and
\* the write targets directory "/" fileName.
C13_DirectoryBeforeWrite ==
    [][(Len(writes') = Len(writes) + 1)
       => LET w == writes'[Len(writes')]
              f == FunctionNamed(cfg, w.fn)
          IN
          /\ dirState = "absent"
             => mkdirs' = Append(mkdirs, [path |-> ExpectedDirectory(cfg),
                                          mode |-> 448])
          /\ dirState = "dir" => mkdirs' = mkdirs
          /\ dirState' = "dir"
          /\ w.status = "pending"
          /\ w.path = ExpectedDirectory(cfg) \o "/" \o ExpectedFileName(cfg, f)]_vars

\* two writes issued, the directory created for the first of them only
C13_Witness ==
    /\ Len(writes) = 2
    /\ mkdirs = <<[path |-> "./.serverless-resources-env", mode |-> 448]>>
    /\ writes[2].path = "./.serverless-resources-env/customName"

\* C14: a completed write replaces whatever the path held: the content after
\* it is the serialization of the mapping written and of nothing else, so
\* writing the mapping the path already holds leaves the files byte for
\* byte as they were, and no other path is touched.
C14_WriteOverwrites ==
    [][\A i \in 1..Len(writes) :
         (Len(writes') = Len(writes) /\ writes[i].status = "pending"
             /\ writes'[i].status = "ok")
         => LET m == locals[i].thisFunctionsResources
                path == writes[i].path
                content == Get(files', path)
            IN
            /\ Has(files', path)
            /\ Lines(content) = [n \in 1..Len(m) |-> <<m[n].k, "=", m[n].v>>]
            /\ Len(content) = 4 * Len(m)
            /\ (Has(files, path) /\ Lines(Get(files, path)) = Lines(content)
                   /\ Len(Get(files, path)) = Len(content))
               => files' = files
            /\ \A p \in KeySet(files) \cup KeySet(files') :
                   p # path => /\ Has(files, p) /\ Has(files', p)
                               /\ Get(files', p) = Get(files, p)]_vars

\* both functions wrote the same one-line mapping to the shared path, which
\* holds that line once; the other file of the directory is as it was
C14_Witness ==
    /\ Len(writes) = 2
    /\ writes[1].status = "ok" /\ writes[2].status = "ok"
    /\ writes[1].path = writes[2].path
    /\ locals[1].thisFunctionsResources = <<KV("CF_a", "1")>>
    /\ locals[2].thisFunctionsResources = <<KV("CF_a", "1")>>
    /\ Has(files, writes[1].path)
    /\ Get(files, writes[1].path) = <<"CF_a", "=", "1", "\n">>
    /\ Has(files, "./.serverless-resources-env/other")
    /\ Get(files, "./.serverless-resources-env/other") =
           <<"CF_b", "=", "1", "\n">>

-----------------------------------------------------------------------------
(* The local-invocation hook: properties *)

\* the env file of the function a local invocation names
TargetFile(name) ==
    ExpectedDirectory(cfg) \o "/"
        \o ExpectedFileName(cfg, FunctionNamed(cfg, name))

\* C15: when the env file of the invoked function does not exist,
\* beforeLocalInvoke returns without raising and leaves the process
\* environment, and the files, as they were.
C15_MissingFileNoOp ==
    [][(invoked = None /\ invoked' # None
            /\ ~Has(files, TargetFile(invoked'[1].fn)))
       => /\ invoked'[1].outcome = "returned"
          /\ processEnv' = processEnv
          /\ files' = files]_vars

\* a local invocation before any deploy, its environment as it was given
C15_Witness ==
    /\ phase = "idle"
    /\ invoked # None
    /\ invoked[1].outcome = "returned"
    /\ files = EmptyMap
    /\ processEnv = <<KV("CF_a", "preset")>>

\* C16: when the env file exists, beforeLocalInvoke gives every key of the
\* file that the process environment did not have the file's value, and
\* leaves every key the environment already had, in the file or not, at the
\* value it had; no other key appears.
C16_LoadIfAbsent ==
    [][(invoked = None /\ invoked' # None
            /\ Has(files, TargetFile(invoked'[1].fn)))
       => LET lines == Lines(Get(files, TargetFile(invoked'[1].fn)))
              fileKeys == {lines[n][1] : n \in 1..Len(lines)}
          IN
          /\ \A n \in 1..Len(lines) :
                 /\ Has(processEnv', lines[n][1])
                 /\ ~Has(processEnv, lines[n][1])
                    => Get(processEnv', lines[n][1]) = lines[n][3]
          /\ \A k \in KeySet(processEnv) :
                 Has(processEnv', k) /\ Get(processEnv', k) = Get(processEnv, k)
          /\ KeySet(processEnv') = KeySet(processEnv) \cup fileKeys]_vars

\* the file held CF_a and CF_b: CF_a keeps the value given to the process,
\* CF_b takes the file's
C16_Witness ==
    /\ invoked # None
    /\ Has(files, invoked[1].path)
    /\ Get(files, invoked[1].path) =
           <<"CF_a", "=", "1", "\n", "CF_b", "=", "1", "\n">>
    /\ processEnv = <<KV("CF_a", "preset"), KV("CF_b", "1")>>

-----------------------------------------------------------------------------
(* The aggregate wait of afterDeploy: properties *)

AnyFailed ==
    \/ \E i \in 1..Len(updates) : updates[i].status = "failed"
    \/ \E i \in 1..Len(writes) : writes[i].status = "failed"

\* C17 as stated: once afterDeploy's promise has settled, fulfilled or
\* rejected, no publish request and no file write of the cycle is still
\* outstanding.
C17_SettledAfterEveryRequest ==
    promise \in {"resolved", "rejected"}
    => /\ \A i \in 1..Len(updates) : updates[i].status # "pending"
       /\ \A i \in 1..Len(writes) : writes[i].status # "pending"

\* C17, amended: afterDeploy's promise is fulfilled only after the publish
\* request and the file write of every declared function have been issued
\* and have succeeded; it is rejected as soon as the fetch, a createCFFile
\* call, a publish or a write fails, whatever else is still outstanding.
C17_FulfilledAfterAllRejectedAtFirst ==
    /\ promise = "resolved"
       => /\ Len(updates) = Len(cfg.functions)
          /\ Len(writes) = Len(cfg.functions)
          /\ \A i \in 1..Len(updates) : updates[i].status = "ok"
          /\ \A i \in 1..Len(writes) : writes[i].status = "ok"
    /\ AnyFailed => promise = "rejected"
    /\ promise = "rejected"
       => \/ AnyFailed
          \/ reason \in {"ListError", "NotADirectory", "MkdirError"}

\* rejected by the first function's write while the second function's
\* publish and write are still outstanding
C17_Witness ==
    /\ promise = "rejected"
    /\ reason = "WriteError"
    /\ Len(updates) = 2
    /\ writes[1].status = "failed"
    /\ updates[2].status = "pending"
    /\ writes[2].status = "pending"

\* C18: as soon as the remote update of one function has failed the promise
\* of afterDeploy is rejected, whatever the publishes and writes of other
\* functions have achieved; the failure changes no published environment,
\* no file and no other request, and what has succeeded stays in place.
C18_UpdateFailureRejects ==
    [][/\ (\E i \in 1..Len(updates') : updates'[i].status = "failed")
          => promise' = "rejected"
       /\ \A i \in 1..Len(updates) :
            (updates[i].status = "pending" /\ updates'[i].status = "failed")
            => /\ lambdaEnv' = lambdaEnv
               /\ files' = files
               /\ writes' = writes
               /\ \A j \in 1..Len(updates) : j # i => updates'[j] = updates[j]
       /\ \A i \in 1..Len(updates) :
            updates[i].status = "ok"
            => /\ updates'[i].status = "ok"
               /\ Has(lambdaEnv', updates[i].params.FunctionName)
               /\ Get(lambdaEnv', updates[i].params.FunctionName) =
                      Get(lambdaEnv, updates[i].params.FunctionName)
       /\ \A i \in 1..Len(writes) :
            writes[i].status = "ok"
            => writes'[i].status = "ok" /\ Has(files', writes[i].path)]_vars

\* the second function's update failed after the first function's publish
\* and both writes had succeeded: rejected, with their results in place
C18_Witness ==
    /\ promise = "rejected"
    /\ reason = "UpdateError"
    /\ Len(updates) = 2
    /\ updates[1].status = "ok"
    /\ updates[2].status = "failed"
    /\ writes[1].status = "ok" /\ writes[2].status = "ok"
    /\ Has(lambdaEnv, updates[1].params.FunctionName)
    /\ ~Has(lambdaEnv, updates[2].params.FunctionName)
    /\ Has(files, writes[1].path)

-----------------------------------------------------------------------------
(* Page requests and unmet requests: properties *)

\* C19: the page requests of a fetch are strictly sequential: the first
\* carries no continuation token, every later one carries exactly the token
\* of the response just before it and follows that response, all name the
\* same stack, and at most one request is without its response at any time.
C19_SequentialPages ==
    /\ Len(responses) <= Len(requests)
    /\ Len(requests) <= Len(responses) + 1
    /\ Len(requests) >= 1 => requests[1].NextToken = None
    /\ \A k \in 2..Len(requests) :
         /\ k - 1 <= Len(responses)
         /\ responses[k - 1].err = None
         /\ responses[k - 1].token # None
         /\ requests[k].NextToken = responses[k - 1].token
         /\ requests[k].StackName = requests[1].StackName

\* the second request is outstanding and carries the first response's token
C19_Witness ==
    /\ Len(requests) = 2
    /\ Len(responses) = 1
    /\ responses[1].token = <<"t2">>
    /\ requests[2].NextToken = <<"t2">>

\* the requested keys of a function that the resource map does not hold
UnmetKeys(f) == SelectSeq(Requested(f), LAMBDA k : ~Has(resources, k))

\* the warnings logged about a function
Warnings(name) ==
    SelectSeq(log, LAMBDA e : e.kind = "warning" /\ e.name = name)

\* C20: an unmet resource request is not fatal: every function handled, with
\* or without unmet keys, has its publish request issued and, unless the
\* directory check of its createCFFile call failed, its write issued; a
\* warning naming the function and exactly its missing keys is logged once
\* when the function has unmet keys and never otherwise; the cycle rejects
\* only for a fetch, directory, publish or write failure.
C20_UnmetNonFatal ==
    /\ \A i \in 1..Len(locals) :
         LET f == cfg.functions[i] IN
         /\ locals[i].notFoundList = UnmetKeys(f)
         /\ Warnings(f.name) =
                IF UnmetKeys(f) = <<>> THEN <<>>
                ELSE <<[kind |-> "warning", name |-> f.name,
                        keys |-> UnmetKeys(f), n |-> 0]>>
         /\ i <= Len(updates) /\ updates[i].fn = f.name
         /\ (i < Len(locals) \/ reason \notin {"NotADirectory", "MkdirError"})
            => i <= Len(writes) /\ writes[i].fn = f.name
    /\ \A i \in (Len(locals) + 1)..Len(cfg.functions) :
         Warnings(cfg.functions[i].name) = <<>>
    /\ promise = "rejected"
       => \/ AnyFailed
          \/ reason \in {"ListError", "NotADirectory", "MkdirError"}

\* function2 asked for a resource the stack does not have: it was warned
\* about, published and written, function1 was too, and the cycle resolved
C20_Witness ==
    /\ promise = "resolved"
    /\ Len(locals) = 2
    /\ locals[1].notFoundList = <<>>
    /\ locals[2].notFoundList = <<"CF_unknown">>
    /\ Warnings("function1") = <<>>
    /\ Len(Warnings("function2")) = 1
    /\ updates[1].status = "ok" /\ updates[2].status = "ok"
    /\ writes[1].status = "ok" /\ writes[2].status = "ok"
    /\ updates[1].params.Environment.Variables = <<KV("CF_a", "1")>>

-----------------------------------------------------------------------------
(* Functions without requests, and the two uses of the file path *)

\* the function declares no custom block, or one without env-resources
DeclaresNoRequests(f) ==
    f.custom = None \/ f.custom[1].envResources = None

\* the log entries of one kind about a function
Logged(kind, name) == SelectSeq(log, LAMBDA e : e.kind = kind /\ e.name = name)

\* C21: a function that declares no resource requests has an empty matched
\* set and an empty unmetKeys, no warning and no 'setting' entry but one 'no
\* env resources configured' entry in the log; the environment published
\* for it is the provider-level entries overlaid by the function-level
\* ones and nothing else, and the file written for it is empty.
C21_NoRequests ==
    \A i \in 1..Len(locals) :
        LET f == cfg.functions[i] IN
        DeclaresNoRequests(f)
        => /\ locals[i].thisFunctionsResources = EmptyMap
           /\ locals[i].notFoundList = <<>>
           /\ Logged("warning", f.name) = <<>>
           /\ Logged("setting", f.name) = <<>>
           /\ Len(Logged("noenv", f.name)) = 1
           /\ IsOverlay(updates[i].params.Environment.Variables,
                        EmptyMap, ProviderLayer, FunctionLayer(f))
           /\ i <= Len(writes)
              => /\ writes[i].data = <<>>
                 /\ writes[i].status = "ok"
                    => /\ Has(files, writes[i].path)
                       /\ Get(files, writes[i].path) = <<>>

\* a function without a custom block over a stack that has resource "a":
\* the provider and function entries were published, an empty file written
C21_Witness ==
    /\ cfg.functions[1].custom = None
    /\ resources = <<KV("CF_a", "1")>>
    /\ Len(updates) = 1
    /\ updates[1].status = "ok"
    /\ updates[1].params.Environment.Variables =
           <<KV("CF_a", "default"), KV("CF_b", "override")>>
    /\ Len(writes) = 1
    /\ writes[1].status = "ok"
    /\ Get(files, writes[1].path) = <<>>

\* C22: for every declared function, under every stage, region and override
\* configuration, the path beforeLocalInvoke hands to dotenv is the path
\* createCFFile writes for that function; so what a local invocation finds
\* at its path is what a write of the cycle for that function, or for a
\* function sharing the path, left there.
C22_LoadsWhatWasWritten ==
    /\ \A n \in 1..Len(cfg.functions) :
         localFullPath(cfg, cfg.functions[n]) =
             fullFileName(cfg, cfg.functions[n])
    /\ invoked # None
       => /\ invoked[1].path = TargetFile(invoked[1].fn)
          /\ \A i \in 1..Len(writes) :
               writes[i].fn = invoked[1].fn
               => /\ writes[i].path = invoked[1].path
                  /\ (writes[i].status = "ok" /\ dirState = "dir")
                     => Has(files, invoked[1].path)

\* under run-time stage and region and both overrides, the local invocation
\* found the file the cycle had written and took CF_a from it
C22_Witness ==
    /\ cfg.options # None
    /\ invoked # None
    /\ Len(writes) = 1
    /\ writes[1].status = "ok"
    /\ invoked[1].path = "./custom-dir/customName"
    /\ writes[1].path = "./custom-dir/customName"
    /\ Has(processEnv, "CF_a")
    /\ Get(processEnv, "CF_a") = "1"

-----------------------------------------------------------------------------
(* Reporting, halting and retrying: properties *)

\* C23: the success of a function's publish is reported whatever happened
\* to the other functions: the step in which an update succeeds appends the
\* 'ENV Update ... successful' entry of that function to the log, also when
\* the cycle's promise is already rejected, and a later failure of another
\* function removes no entry; so every succeeded publish has its entry.
C23_SuccessAlwaysReported ==
    [][/\ \A i \in 1..Len(updates) :
            (updates[i].status = "pending" /\ updates'[i].status = "ok")
            => log' = Append(log, [kind |-> "success",
                                   name |-> updates[i].params.FunctionName,
                                   keys |-> <<>>, n |-> 0])
       /\ \A i \in 1..Len(updates) :
            updates[i].status = "ok"
            => /\ Len(Logged("success", updates[i].params.FunctionName)) = 1
               /\ SubSeq(log', 1, Len(log)) = log]_vars

\* function1's publish failed and rejected the cycle; function2's publish
\* succeeded and is reported
C23_Witness ==
    /\ promise = "rejected"
    /\ reason = "UpdateError"
    /\ Len(updates) = 2
    /\ updates[1].status = "failed"
    /\ updates[2].status = "ok"
    /\ writes[1].status = "pending" /\ writes[2].status = "pending"
    /\ Logged("success", "unit-test-service-dev-function1") = <<>>
    /\ Len(Logged("success", "unit-test-service-dev-function2")) = 1

\* C24: a failure publishing one function's environment is logged with the
\* name of the function whose publish failed: the step in which an update
\* fails appends to the log an entry naming that function.
C24_FailureLoggedWithName ==
    [][\A i \in 1..Len(updates) :
         (updates[i].status = "pending" /\ updates'[i].status = "failed")
         => /\ Len(log') = Len(log) + 1
            /\ log'[Len(log')].name \in
                   {updates[i].fn, updates[i].params.FunctionName}]_vars

\* C25: when the directory check fails for the k-th declared function, its
\* publish has just been issued and no write is issued for it; the promise
\* of the cycle rejects; from then on no function is handled and no publish
\* or write is issued; the requests issued before stay as they are, and
\* what they have achieved or go on to achieve is kept.
C25_DirectoryFailureHalts ==
    [][/\ (phase = "processing" /\ dirState = "file"
              /\ Len(locals') = Len(locals) + 1)
          => LET k == Len(locals') IN
             /\ Len(updates') = k
             /\ updates'[k].fn = cfg.functions[k].name
             /\ updates'[k].status = "pending"
             /\ \A j \in 1..(k - 1) : updates'[j] = updates[j]
             /\ Len(writes) = k - 1
             /\ writes' = writes
             /\ promise' = "rejected"
             /\ lambdaEnv' = lambdaEnv
             /\ files' = files
       /\ reason = "NotADirectory"
          => /\ Len(locals') = Len(locals)
             /\ Len(updates') = Len(updates)
             /\ Len(writes') = Len(writes)
             /\ promise' = "rejected"
             /\ \A j \in 1..Len(updates) :
                  updates[j].status = "ok"
                  => /\ updates'[j].status = "ok"
                     /\ Has(lambdaEnv', updates[j].params.FunctionName)
             /\ \A j \in 1..Len(writes) :
                  writes[j].status = "ok" => writes'[j].status = "ok"]_vars

\* the check failed at the first of two functions: its publish was issued
\* and went on to succeed, nothing was issued for the second
C25_Witness ==
    /\ reason = "NotADirectory"
    /\ Len(cfg.functions) = 2
    /\ Len(locals) = 1
    /\ Len(updates) = 1
    /\ updates[1].status = "ok"
    /\ Has(lambdaEnv, "unit-test-service-dev-function1")
    /\ writes = <<>>
    /\ promise = "rejected"

\* every request of the cycle issued once: a page request only for the
\* first page or on a response carrying a token, one update and at most one
\* write per declared function, in declaration order
IssuedOnce ==
    /\ Len(requests) <= Len(responses) + 1
    /\ \A k \in 1..Len(responses) :
         responses[k].err # None \/ responses[k].token = None
         => k = Len(responses) /\ Len(requests) = k
    /\ Len(updates) <= Len(cfg.functions)
    /\ \A i \in 1..Len(updates) : updates[i].fn = cfg.functions[i].name
    /\ Len(writes) <= Len(updates)
    /\ \A i \in 1..Len(writes) : writes[i].fn = cfg.functions[i].name

\* C26: nothing is retried: each page of the list is requested at most
\* once, each function's update and each function's write is issued at most
\* once, a failed request stays failed with no request issued in its place,
\* and one error of the provider on any request rejects the cycle.
C26_NoRetry ==
    [][/\ IssuedOnce'
       /\ \A i \in 1..Len(updates) :
            updates[i].status = "failed"
            => updates'[i].status = "failed" /\ Len(updates') = Len(updates)
       /\ \A i \in 1..Len(writes) :
            writes[i].status = "failed"
            => writes'[i].status = "failed" /\ Len(writes') = Len(writes)
       /\ (\E k \in 1..Len(responses) : responses[k].err # None)
          => requests' = requests /\ responses' = responses
       /\ (AnyFailed' \/ \E k \in 1..Len(responses') : responses'[k].err # None)
          => promise' = "rejected"]_vars

\* one write failed once: the cycle is rejected, everything else completed,
\* and the failed write was not issued again
C26_Witness ==
    /\ promise = "rejected"
    /\ reason = "WriteError"
    /\ Len(updates) = 2 /\ Len(writes) = 2
    /\ writes[1].status = "failed"
    /\ writes[2].status = "ok"
    /\ updates[1].status = "ok" /\ updates[2].status = "ok"

\* the function has no resource-output-file override
NoOverride(f) == f.custom = None \/ f.custom[1].outputFile = ""

\* the writes of the cycle, other than the i-th, that target its path
SharingPath(i) ==
    {j \in 1..Len(writes) : j # i /\ writes[j].path = writes[i].path}

\* C27: the writes of two distinct functions target one path only if an
\* output-file override is involved, never when neither function has one;
\* a file written by one function alone holds that function's mapping in
\* whatever order the writes complete; where writes share a path, each
\* completion replaces the content, so the file holds the mapping of the
\* write that completed last.
C27_DistinctPaths ==
    [][/\ \A i \in 1..Len(writes') : \A j \in SharingPath(i)' :
            ~(NoOverride(cfg.functions[i]) /\ NoOverride(cfg.functions[j]))
       /\ \A i \in 1..Len(writes') :
            (writes'[i].status = "ok" /\ SharingPath(i)' = {})
            => /\ Has(files', writes'[i].path)
               /\ Lines(Get(files', writes'[i].path)) =
                      [n \in 1..Len(locals'[i].thisFunctionsResources) |->
                          <<locals'[i].thisFunctionsResources[n].k, "=",
                            locals'[i].thisFunctionsResources[n].v>>]
       /\ \A i \in 1..Len(writes) :
            (Len(writes') = Len(writes) /\ writes[i].status = "pending"
                /\ writes'[i].status = "ok")
            => /\ Has(files', writes[i].path)
               /\ Get(files', writes[i].path) = writes[i].data]_vars

\* both functions are overridden to customName: function1 wrote CF_a=1,
\* function2 completed after it with an empty mapping, and the file is empty
C27_Witness ==
    /\ Len(writes) = 2
    /\ writes[1].path = writes[2].path
    /\ writes[1].status = "ok" /\ writes[2].status = "ok"
    /\ writes[1].data = <<"CF_a", "=", "1", "\n">>
    /\ writes[2].data = <<>>
    /\ Has(files, writes[1].path)
    /\ Get(files, writes[1].path) = <<>>

-----------------------------------------------------------------------------
(* Termination of the fetch *)

\* the fetch has settled: it resolved with the list or it rejected
FetchSettled == resourceResult # None \/ reason = "ListError"

\* the responses before the last each carried a token and no error
TokensBefore(n) ==
    \A k \in 1..(n - 1) : responses[k].err = None /\ responses[k].token # None

\* C28: with a provider that answers every page request and, within the
\* pages it has, ends with an error or a page without a token, the fetch
\* eventually settles; it resolves exactly at the first page without a
\* token and rejects exactly at the first error, with no request issued
\* after either; and as long as every response carried a token it has not
\* settled and the next page request is outstanding.
C28_FetchSettles ==
    /\ [](/\ resourceResult # None
             <=> /\ Len(responses) >= 1
                 /\ responses[Len(responses)].err = None
                 /\ responses[Len(responses)].token = None
          /\ reason = "ListError"
             <=> /\ Len(responses) >= 1
                 /\ responses[Len(responses)].err # None
          /\ TokensBefore(Len(responses))
          /\ FetchSettled => Len(requests) = Len(responses)
          /\ (phase # "idle" /\ TokensBefore(Len(responses) + 1))
             => /\ ~FetchSettled
                /\ phase = "fetching"
                /\ Len(requests) = Len(responses) + 1)
    /\ (phase = "fetching") ~> FetchSettled

\* the fetch resolved at its second page, the first having carried a token
C28_Witness ==
    /\ Len(responses) = 2
    /\ responses[1].token # None
    /\ responses[2].token = None /\ responses[2].err = None
    /\ resourceResult # None
    /\ Len(requests) = 2

====
